---- MODULE Spec2Model ----
(***************************************************************************)
(* Code Context Graph engine of jac-repo: the CodeContextGraph class and   *)
(* build_code_context_graph of src/genius/ccg_builder.py.                  *)
(*                                                                         *)
(* Python values are modelled as follows.  A str is a TLA+ string (Len,    *)
(* \o and SubSeq act on it character by character).  A list is a sequence. *)
(* A dict is a record [keys, map]: keys is the sequence of its keys in     *)
(* insertion order (the order Python iterates in), map the function from   *)
(* key to value.  A dict with string keys whose key set varies from value  *)
(* to value (an extraction record, an entity record) is a TLA+ record, and *)
(* a key it lacks is a field it lacks.                                     *)
(***************************************************************************)
EXTENDS Integers, Sequences, FiniteSets, TLC

VARIABLES
    parsed_files,   \* the argument of build_code_context_graph
    pc,             \* where build_code_context_graph stands
    i,              \* index of the next record of the running pass
    ccg,            \* the CodeContextGraph instance
    result,         \* the value build_code_context_graph returned
    call,           \* the last method called on ccg by a client of the class
    before,         \* ccg as it was when that call was made
    ncalls,         \* number of client calls made so far
    hist,           \* what the client's calls so far have passed to ccg
    hashseed,       \* the string hash seed of the running interpreter
    asked,          \* the last call made on the snapshot by one of its readers
    reply,          \* the value that call returned
    firstReply,     \* the value the same call returned the first time
    file_tree       \* the files of the repository summarize_repo walks

vars == <<parsed_files, pc, i, ccg, result, call, before, ncalls, hist,
          hashseed, asked, reply, firstReply, file_tree>>

readerVars == <<hashseed, asked, reply, firstReply>>

(***************************************************************************)
(* Bounds of the model.                                                    *)
(***************************************************************************)
MaxFiles == 3
MaxCalls == 4
MaxStatNodes == 11
MaxStatEdges == 15
MaxRead == 2
MaxSeed == 1
MaxRepo == 2

(***************************************************************************)
(* Python built-ins.                                                       *)
(***************************************************************************)
Range(s) == {s[k] : k \in 1..Len(s)}

None == "None"

\* d.get(key, default) on a dict modelled as a record
Get(d, key, default) == IF key \in DOMAIN d THEN d[key] ELSE default

\* sub in text, on str
Contains(text, sub) ==
    \E k \in 0..(Len(text) - Len(sub)) : SubSeq(text, k + 1, k + Len(sub)) = sub

\* text[j:].replace(old, new), counted from 1, where matches holds the
\* positions at which old occurs in text: the occurrences are taken from the
\* left and do not overlap
RECURSIVE ReplaceFrom(_, _, _, _, _)
ReplaceFrom(text, old, new, matches, j) ==
    LET ahead == {p \in matches : p >= j}
    IN  IF ahead = {} THEN SubSeq(text, j, Len(text))
        ELSE LET next == CHOOSE p \in ahead : \A q \in ahead : p <= q
             IN  SubSeq(text, j, next - 1) \o new
                    \o ReplaceFrom(text, old, new, matches, next + Len(old))

\* text.replace(old, new) for a non-empty old
Replace(text, old, new) ==
    ReplaceFrom(text, old, new,
                {p \in 1..(Len(text) - Len(old) + 1) :
                    SubSeq(text, p, p + Len(old) - 1) = old},
                1)

\* Sequencing of statements.  Python finishes a statement before it starts the
\* next one: Only({Rest(first) : first \in {Stmt}}) is Rest applied to the
\* value Stmt has produced.
Only(singleton) == CHOOSE out \in singleton : TRUE

EmptyDict == [keys |-> <<>>, map |-> <<>>]

Has(d, key) == key \in Range(d.keys)

\* d.get(key, default) on an insertion-ordered dict
DictGet(d, key, default) == IF Has(d, key) THEN d.map[key] ELSE default

\* d[key] = value: a new key goes last, a known key keeps its place
DictSet(d, key, value) ==
    [keys |-> IF Has(d, key) THEN d.keys ELSE Append(d.keys, key),
     map  |-> (key :> value) @@ d.map]

RECURSIVE SumLen(_, _)
SumLen(d, k) ==
    IF k = 0 THEN 0 ELSE Len(d.map[d.keys[k]]) + SumLen(d, k - 1)

Max(a, b) == IF a >= b THEN a ELSE b

(***************************************************************************)
(* float.  A finite non-negative IEEE 754 binary64 value is the record     *)
(* [lead, frac, exp]: lead is the leading bit of the 53-bit significand    *)
(* (1, or 0 for 0.0), frac its other 52 bits as four 13-bit limbs, most    *)
(* significant first, and exp the exponent, so that the value is           *)
(* (lead + frac[1]/2^13 + frac[2]/2^26 + frac[3]/2^39 + frac[4]/2^52)      *)
(* * 2^exp.  The ints converted here stay below 2^13.                      *)
(***************************************************************************)
Limb == 2 ^ 13

FloatZero == [lead |-> 0, frac |-> <<0, 0, 0, 0>>, exp |-> 0]

\* floor(log2(n)) for an int n >= 1
Log2(n) == CHOOSE p \in 0..13 : 2 ^ p <= n /\ n < 2 ^ (p + 1)

\* float(n) for an int 0 <= n < 2^13 (exact)
FloatOfInt(n) ==
    IF n = 0 THEN FloatZero
    ELSE LET p == Log2(n)
         IN  [lead |-> 1,
              frac |-> <<(n - 2 ^ p) * 2 ^ (13 - p), 0, 0, 0>>,
              exp |-> p]

\* the next float above x (x > 0)
FloatSucc(x) ==
    LET n4 == x.frac[4] + 1
        n3 == x.frac[3] + n4 \div Limb
        n2 == x.frac[2] + n3 \div Limb
        n1 == x.frac[1] + n2 \div Limb
    IN  IF n1 \div Limb = 1
        THEN [lead |-> 1, frac |-> <<0, 0, 0, 0>>, exp |-> x.exp + 1]
        ELSE [x EXCEPT
                !.frac = <<n1 % Limb, n2 % Limb, n3 % Limb, n4 % Limb>>]

\* the next float below x (x > 0, normal)
FloatPred(x) ==
    LET b4 == IF x.frac[4] = 0 THEN 1 ELSE 0
        b3 == IF b4 = 1 /\ x.frac[3] = 0 THEN 1 ELSE 0
        b2 == IF b3 = 1 /\ x.frac[2] = 0 THEN 1 ELSE 0
        b1 == IF b2 = 1 /\ x.frac[1] = 0 THEN 1 ELSE 0
    IN  IF b1 = 1
        THEN [lead |-> 1,
              frac |-> <<Limb - 1, Limb - 1, Limb - 1, Limb - 1>>,
              exp |-> x.exp - 1]
        ELSE [x EXCEPT
                !.frac = <<(x.frac[1] + Limb - b2) % Limb,
                           (x.frac[2] + Limb - b3) % Limb,
                           (x.frac[3] + Limb - b4) % Limb,
                           (x.frac[4] + Limb - 1) % Limb>>]

\* a / b on ints a >= 0, b >= 1 (a float): the quotient rounded to the
\* nearest float, ties to even, by long division in base 2^13
TrueDiv(a, b) ==
    IF a = 0 THEN FloatZero
    ELSE LET exp == CHOOSE e \in -13..13 :
                        LET n == a * 2 ^ Max(0 - e, 0)
                            d == b * 2 ^ Max(e, 0)
                        IN  d <= n /\ n < 2 * d
             num == a * 2 ^ Max(0 - exp, 0)
             den == b * 2 ^ Max(exp, 0)
             r0 == num - den
             q1 == (r0 * Limb) \div den
             r1 == (r0 * Limb) % den
             q2 == (r1 * Limb) \div den
             r2 == (r1 * Limb) % den
             q3 == (r2 * Limb) \div den
             r3 == (r2 * Limb) % den
             q4 == (r3 * Limb) \div den
             r4 == (r3 * Limb) % den
             down == [lead |-> 1, frac |-> <<q1, q2, q3, q4>>, exp |-> exp]
         IN  IF 2 * r4 > den \/ (2 * r4 = den /\ q4 % 2 = 1)
             THEN FloatSucc(down) ELSE down

\* the exact product of the significand of x and an int n >= 1: the limbs
\* of frac times n, and above them what lead and the carries give
ExactMul(x, n) ==
    LET p4 == x.frac[4] * n
        p3 == x.frac[3] * n + p4 \div Limb
        p2 == x.frac[2] * n + p3 \div Limb
        p1 == x.frac[1] * n + p2 \div Limb
    IN  [top |-> x.lead * n + p1 \div Limb,
         low |-> <<p1 % Limb, p2 % Limb, p3 % Limb, p4 % Limb>>]

\* x * n for a float x and an int 1 <= n < 2^13: n converts exactly, the
\* exact product is rounded once to the nearest float, ties to even
FloatMul(x, n) ==
    IF x.lead = 0 THEN FloatZero
    ELSE LET p == ExactMul(x, n)
             s == Log2(p.top)
             cut == 2 ^ s
             up == 2 ^ (13 - s)
             down ==
                 [lead |-> 1,
                  frac |-> <<(p.top - cut) * up + p.low[1] \div cut,
                             (p.low[1] % cut) * up + p.low[2] \div cut,
                             (p.low[2] % cut) * up + p.low[3] \div cut,
                             (p.low[3] % cut) * up + p.low[4] \div cut>>,
                  exp |-> x.exp + s]
             lost == p.low[4] % cut
         IN  IF 2 * lost > cut \/ (2 * lost = cut /\ down.frac[4] % 2 = 1)
             THEN FloatSucc(down) ELSE down

(***************************************************************************)
(* class CodeContextGraph                                                  *)
(***************************************************************************)
NewGraph ==
    [nodes |-> EmptyDict, edges |-> EmptyDict,
     edge_types |-> EmptyDict, file_entities |-> EmptyDict]

add_node_merge(self, entity_id, entity_data) ==
    LET file_path == Get(entity_data, "file_path", "")
        merged == entity_data @@ DictGet(self.nodes, entity_id, <<>>)
    IN  [self EXCEPT
            !.nodes = DictSet(self.nodes, entity_id, merged),
            !.file_entities =
                IF file_path # ""
                THEN DictSet(@, file_path,
                             Append(DictGet(@, file_path, <<>>), entity_id))
                ELSE @]

add_node_any_path(self, entity_id, entity_data) ==
    LET file_path == Get(entity_data, "file_path", "")
    IN  [self EXCEPT
            !.nodes = DictSet(self.nodes, entity_id, entity_data),
            !.file_entities =
                DictSet(@, file_path,
                        Append(DictGet(@, file_path, <<>>), entity_id))]

add_node(self, entity_id, entity_data) ==
    LET file_path == Get(entity_data, "file_path", "")
    IN  [self EXCEPT
            !.nodes = DictSet(self.nodes, entity_id, entity_data),
            !.file_entities =
                IF file_path # ""
                THEN DictSet(@, file_path,
                             Append(DictGet(@, file_path, <<>>), entity_id))
                ELSE @]

add_edge_source_only(self, from_id, to_id, edge_type) ==
    IF Has(self.nodes, from_id)
    THEN [self EXCEPT
            !.edges = DictSet(@, from_id,
                              Append(DictGet(@, from_id, <<>>), to_id)),
            !.edge_types = DictSet(@, <<from_id, to_id>>, edge_type)]
    ELSE self

add_edge_either(self, from_id, to_id, edge_type) ==
    IF Has(self.nodes, from_id) \/ Has(self.nodes, to_id)
    THEN [self EXCEPT
            !.edges = DictSet(@, from_id,
                              Append(DictGet(@, from_id, <<>>), to_id)),
            !.edge_types = DictSet(@, <<from_id, to_id>>, edge_type)]
    ELSE self

add_edge_dedup(self, from_id, to_id, edge_type) ==
    IF Has(self.nodes, from_id) /\ Has(self.nodes, to_id)
    THEN [self EXCEPT
            !.edges =
                IF to_id \in Range(DictGet(@, from_id, <<>>)) THEN @
                ELSE DictSet(@, from_id,
                             Append(DictGet(@, from_id, <<>>), to_id)),
            !.edge_types = DictSet(@, <<from_id, to_id>>, edge_type)]
    ELSE self

\* an undirected store: the edge is stored in both directions
add_edge_both_ways(self, from_id, to_id, edge_type) ==
    IF Has(self.nodes, from_id) /\ Has(self.nodes, to_id)
    THEN [self EXCEPT
            !.edges =
                LET forward == DictSet(@, from_id,
                                       Append(DictGet(@, from_id, <<>>), to_id))
                IN  DictSet(forward, to_id,
                            Append(DictGet(forward, to_id, <<>>), from_id)),
            !.edge_types =
                DictSet(DictSet(@, <<from_id, to_id>>, edge_type),
                        <<to_id, from_id>>, edge_type)]
    ELSE self

add_edge(self, from_id, to_id, edge_type) ==
    IF Has(self.nodes, from_id) /\ Has(self.nodes, to_id)
    THEN [self EXCEPT
            !.edges = DictSet(@, from_id,
                              Append(DictGet(@, from_id, <<>>), to_id)),
            !.edge_types = DictSet(@, <<from_id, to_id>>, edge_type)]
    ELSE self

get_stats_floordiv(self) ==
    LET edge_count == SumLen(self.edges, Len(self.edges.keys))
    IN  [node_count |-> Len(self.nodes.keys),
         edge_count |-> edge_count,
         file_count |-> Len(self.file_entities.keys),
         avg_connections |->
             FloatOfInt(edge_count \div Max(Len(self.nodes.keys), 1))]

get_stats(self) ==
    LET edge_count == SumLen(self.edges, Len(self.edges.keys))
    IN  [node_count |-> Len(self.nodes.keys),
         edge_count |-> edge_count,
         file_count |-> Len(self.file_entities.keys),
         avg_connections |-> TrueDiv(edge_count, Max(Len(self.nodes.keys), 1))]

\* the ids whose adjacency list holds entity_id, in the order of the edges dict
get_callers(self, entity_id) ==
    SelectSeq(self.edges.keys,
              LAMBDA from_id : entity_id \in Range(self.edges.map[from_id]))

get_callees(self, entity_id) == DictGet(self.edges, entity_id, <<>>)

get_entity(self, entity_id) == DictGet(self.nodes, entity_id, <<>>)

\* {f"{k[0]}->{k[1]}": v for k, v in self.edge_types.items()}, for the
\* items lo..hi added in order to the dict flat
RECURSIVE FlatTypes(_, _, _, _)
FlatTypes(flat, edge_types, lo, hi) ==
    IF lo > hi THEN flat
    ELSE IF lo = hi
    THEN LET key == edge_types.keys[lo]
         IN  DictSet(flat, key[1] \o "->" \o key[2], edge_types.map[key])
    ELSE LET mid == (lo + hi) \div 2
         IN  Only({FlatTypes(first, edge_types, mid + 1, hi) :
                     first \in {FlatTypes(flat, edge_types, lo, mid)}})

to_dict(self) ==
    [nodes |-> self.nodes,
     edges |-> self.edges,
     edge_types |-> FlatTypes(EmptyDict, self.edge_types, 1,
                              Len(self.edge_types.keys)),
     stats |-> get_stats(self)]

(***************************************************************************)
(* build_code_context_graph, pass 1: one node per declared entity.         *)
(***************************************************************************)
EntityId(file_path, prefix, name) == file_path \o "::" \o prefix \o name

EntityData(name, kind, language, file_path) ==
    [name |-> name, type |-> kind, language |-> language,
     file_path |-> file_path]

\* the add_node calls of one loop "for name in names: ccg.add_node(...)"
NodeCalls(names, file_path, prefix, kind, language) ==
    [k \in 1..Len(names) |->
        [entity_id |-> EntityId(file_path, prefix, names[k]),
         entity_data |-> EntityData(names[k], kind, language, file_path)]]

\* the add_node calls pass 1 makes for a record it does not skip, in order
Pass1Calls(pfile) ==
    LET file_path == Get(pfile, "path", "")
        file_type == Get(pfile, "type", "")
        Names(field) == Get(pfile, field, <<>>)
    IN  CASE file_type = "python" ->
                NodeCalls(Names("funcs"), file_path, "", "function", "python")
                \o NodeCalls(Names("classes"), file_path, "", "class", "python")
          [] file_type = "jac" ->
                NodeCalls(Names("nodes"), file_path, "node:", "node", "jac")
                \o NodeCalls(Names("walkers"), file_path, "walker:", "walker",
                             "jac")
                \o NodeCalls(Names("abilities"), file_path, "ability:",
                             "ability", "jac")
          [] file_type = "javascript" ->
                NodeCalls(Names("funcs"), file_path, "", "function",
                          "javascript")
                \o NodeCalls(Names("classes"), file_path, "", "class",
                             "javascript")
          [] file_type = "rust" ->
                NodeCalls(Names("funcs"), file_path, "", "function", "rust")
                \o NodeCalls(Names("structs"), file_path, "", "struct", "rust")
          [] OTHER -> <<>>

RECURSIVE AddNodes(_, _, _)
AddNodes(self, calls, k) ==
    IF k = 0 THEN self
    ELSE Only({add_node(done, calls[k].entity_id, calls[k].entity_data) :
                 done \in {AddNodes(self, calls, k - 1)}})

\* the body of the pass 1 loop for a record that is not skipped
Pass1Body(self, pfile) ==
    AddNodes(self, Pass1Calls(pfile), Len(Pass1Calls(pfile)))

\* pfile.get('error') is truthy
HasError(pfile) == Get(pfile, "error", "") # ""

Pass1KeepErrors(self, pfile) == Pass1Body(self, pfile)

Pass1Record(self, pfile) ==
    IF HasError(pfile) THEN self ELSE Pass1Body(self, pfile)

(***************************************************************************)
(* build_code_context_graph, pass 2: the containment heuristic.            *)
(***************************************************************************)
ReferencedShort(entity_name, content) ==
    Contains(content, entity_name) /\ Len(entity_name) > 2

\* entity_name in content and len(entity_name) > 3
Referenced(entity_name, content) ==
    Contains(content, entity_name) /\ Len(entity_name) > 3

\* The ids that the two inner loops of pass 2 visit, in order:
\*   for other_file_path, other_entities in ccg.file_entities.items():
\*       if other_file_path == file_path: continue
\*       for other_entity_id in other_entities: ...
RECURSIVE OtherEntities(_, _, _)
OtherEntities(self, file_path, k) ==
    IF k = 0 THEN <<>>
    ELSE LET other_file_path == self.file_entities.keys[k]
             before_it == OtherEntities(self, file_path, k - 1)
         IN  IF other_file_path = file_path THEN before_it
             ELSE before_it \o self.file_entities.map[other_file_path]

\* the loops without "if other_file_path == file_path: continue"
other_entities_all(self, file_path) ==
    OtherEntities(self, "", Len(self.file_entities.keys))

\* the loops with a break after the first other file
other_entities_one_file(self, file_path) ==
    LET others == SelectSeq(self.file_entities.keys,
                            LAMBDA other_file_path : other_file_path # file_path)
    IN  IF others = <<>> THEN <<>> ELSE self.file_entities.map[others[1]]

\* the ids the two inner loops visit for the record of file_path
other_entities(self, file_path) ==
    OtherEntities(self, file_path, Len(self.file_entities.keys))

\* The add_edge calls of pass 2 for the first k entities of the record's
\* file, as (from_id, to_id) pairs in call order.  add_edge changes neither
\* nodes nor file_entities, which is all the loops read, so the calls are
\* the same whether computed before or between the calls.
RECURSIVE EdgeCalls(_, _, _, _, _)
EdgeCalls(self, current_entities, file_path, content, k) ==
    IF k = 0 THEN <<>>
    ELSE LET entity_id == current_entities[k]
             entity_name == Get(get_entity(self, entity_id), "name", "")
             others == other_entities(self, file_path)
             earlier == EdgeCalls(self, current_entities, file_path, content,
                                  k - 1)
         IN  IF Referenced(entity_name, content)
             THEN earlier \o [j \in 1..Len(others) |-> <<others[j], entity_id>>]
             ELSE earlier

\* ccg.add_edge(from_id, to_id, 'calls') for calls[lo..hi], in order
RECURSIVE AddEdges(_, _, _, _)
AddEdges(self, calls, lo, hi) ==
    IF lo > hi THEN self
    ELSE IF lo = hi THEN add_edge(self, calls[lo][1], calls[lo][2], "calls")
    ELSE LET mid == (lo + hi) \div 2
         IN  Only({AddEdges(first, calls, mid + 1, hi) :
                     first \in {AddEdges(self, calls, lo, mid)}})

\* the calls with the edge drawn from the entity of the record to the other
Pass2Calls_reversed(self, pfile) ==
    IF HasError(pfile) \/ "content" \notin DOMAIN pfile THEN <<>>
    ELSE LET file_path == Get(pfile, "path", "")
             content == Get(pfile, "content", "")
             current_entities == DictGet(self.file_entities, file_path, <<>>)
             calls == EdgeCalls(self, current_entities, file_path, content,
                                Len(current_entities))
         IN  [k \in 1..Len(calls) |-> <<calls[k][2], calls[k][1]>>]

\* the add_edge calls of the pass 2 loop body for one record, in order
Pass2Calls(self, pfile) ==
    IF HasError(pfile) \/ "content" \notin DOMAIN pfile THEN <<>>
    ELSE LET file_path == Get(pfile, "path", "")
             content == Get(pfile, "content", "")
             current_entities == DictGet(self.file_entities, file_path, <<>>)
         IN  EdgeCalls(self, current_entities, file_path, content,
                       Len(current_entities))

\* a pass 2 that registers the entities of the record before it links them
Pass2Record_registering(self, pfile) ==
    IF HasError(pfile) \/ "content" \notin DOMAIN pfile THEN self
    ELSE LET registered == Pass1Body(self, pfile)
             calls == Pass2Calls(registered, pfile)
         IN  AddEdges(registered, calls, 1, Len(calls))

Pass2Record(self, pfile) ==
    LET calls == Pass2Calls(self, pfile)
    IN  AddEdges(self, calls, 1, Len(calls))

RECURSIVE Pass1(_, _)
Pass1(self, files) ==
    IF files = <<>> THEN self
    ELSE Only({Pass1(first, Tail(files)) :
                 first \in {Pass1Record(self, Head(files))}})

RECURSIVE Pass2(_, _)
Pass2(self, files) ==
    IF files = <<>> THEN self
    ELSE Only({Pass2(first, Tail(files)) :
                 first \in {Pass2Record(self, Head(files))}})

build_code_context_graph(files) ==
    Only({to_dict(linked) :
            linked \in {Pass2(populated, files) :
                           populated \in {Pass1(NewGraph, files)}}})

(***************************************************************************)
(* generate_mermaid_diagram.  The str it returns is modelled by the         *)
(* sequence of its lines, "graph TD" first, each of which the code ends    *)
(* with "\n".  top_node_ids is a set of str: the order in which Python     *)
(* iterates over it follows the string hashes, which are fixed within one  *)
(* run of the interpreter and differ from run to run (hash randomisation). *)
(* SetOrder gives the iteration order under a hash seed: the orders taken  *)
(* are the rotations of the insertion order and their reversals.           *)
(***************************************************************************)
DefaultMaxNodes == 20

\* the list a comprehension builds: every item is computed once, in order
ListOf(items) == items \o <<>>

\* keys.index(key), counted from 1
IndexOf(keys, key) == CHOOSE k \in 1..Len(keys) : keys[k] = key

Min(a, b) == IF a <= b THEN a ELSE b

\* len(items[:stop]) for a list of n items
SliceLen(n, stop) == IF stop >= 0 THEN Min(stop, n) ELSE Max(n + stop, 0)

\* the selection without the sort: the first max_nodes ids in dict order
top_node_ids_unsorted(nodes, edges, max_nodes) ==
    LET n == Len(nodes.keys)
    IN  {nodes.keys[k] : k \in 1..SliceLen(n, max_nodes)}

\* the ids sorted(node_connections.items(), key=..., reverse=True)[:max_nodes]
\* keeps: the sort is stable, ids with equal counts stay in dict order
top_node_ids(nodes, edges, max_nodes) ==
    LET n == Len(nodes.keys)
        node_connections ==
            ListOf([k \in 1..n |-> Len(DictGet(edges, nodes.keys[k], <<>>))])
        Count(k) == node_connections[k]
        Rank(k) ==
            Cardinality({j \in 1..n :
                           \/ Count(j) > Count(k)
                           \/ Count(j) = Count(k) /\ j < k})
    IN  {nodes.keys[k] : k \in {j \in 1..n : Rank(j) < SliceLen(n, max_nodes)}}

\* the order in which a set of node ids is iterated under a hash seed
SetOrder(seed, members, keys) ==
    LET n == Len(keys)
        At1(k) == ((k - 1 + seed \div 2) % n) + 1
        all == [k \in 1..n |->
                  IF seed % 2 = 0 THEN keys[At1(k)] ELSE keys[At1(n + 1 - k)]]
    IN  SelectSeq(all, LAMBDA node_id : node_id \in members)

clean_id(node_id) ==
    Replace(Replace(Replace(Replace(node_id, "::", "_"), ":", "_"),
                    "/", "_"), ".", "_")

\* the two lines of a node: its declaration and its style
NodeLines(nodes, clean, node_id) ==
    LET node_data == nodes.map[node_id]
        name == Get(node_data, "name", node_id)
        node_type == Get(node_data, "type", "unknown")
    IN  IF node_type = "class"
        THEN << "    " \o clean \o "[\"" \o name \o "\\n(class)\"]",
                "    style " \o clean \o " fill:#e1f5ff,stroke:#01579b" >>
        ELSE IF node_type \in {"node", "walker"}
        THEN << "    " \o clean \o "{\"" \o name \o "\\n(" \o node_type
                       \o ")\"}",
                "    style " \o clean \o " fill:#fff3e0,stroke:#e65100" >>
        ELSE << "    " \o clean \o "(\"" \o name \o "\\n(" \o node_type
                       \o ")\")",
                "    style " \o clean \o " fill:#f3e5f5,stroke:#4a148c" >>

\* the edge lines without the test of the pairs already drawn
EdgeLines_repeated(edges, top, order, cleaned, from_id) ==
    LET to_ids == DictGet(edges, from_id, <<>>)
        kept == SelectSeq(to_ids, LAMBDA to_id : to_id \in top)
    IN  [k \in 1..Len(kept) |->
            "    " \o cleaned[IndexOf(order, from_id)] \o " --> "
                   \o cleaned[IndexOf(order, kept[k])]]

\* the edge lines of one from_id: its targets in adjacency order, those in
\* the selection only, each pair once
EdgeLines(edges, top, order, cleaned, from_id) ==
    LET to_ids == DictGet(edges, from_id, <<>>)
        Kept(k) ==
            /\ to_ids[k] \in top
            /\ \A j \in 1..(k - 1) : to_ids[j] # to_ids[k]
        kept == SelectSeq([k \in 1..Len(to_ids) |-> k], Kept)
    IN  [k \in 1..Len(kept) |->
            "    " \o cleaned[IndexOf(order, from_id)] \o " --> "
                   \o cleaned[IndexOf(order, to_ids[kept[k]])]]

\* s[1] \o s[2] \o ... for a sequence of sequences, items lo..hi
RECURSIVE Flatten(_, _, _)
Flatten(seqs, lo, hi) ==
    IF lo > hi THEN <<>>
    ELSE IF lo = hi THEN seqs[lo]
    ELSE LET mid == (lo + hi) \div 2
         IN  Flatten(seqs, lo, mid) \o Flatten(seqs, mid + 1, hi)

generate_mermaid_diagram(ccg_dict, max_nodes, seed) ==
    LET nodes == Get(ccg_dict, "nodes", EmptyDict)
        edges == Get(ccg_dict, "edges", EmptyDict)
        top == top_node_ids(nodes, edges, max_nodes)
        order == SetOrder(seed, top, nodes.keys)
        cleaned == ListOf([k \in 1..Len(order) |-> clean_id(order[k])])
        node_lines ==
            [k \in 1..Len(order) |-> NodeLines(nodes, cleaned[k], order[k])]
        edge_lines ==
            [k \in 1..Len(order) |->
                EdgeLines(edges, top, order, cleaned, order[k])]
    IN  <<"graph TD">> \o Flatten(node_lines, 1, Len(order))
                      \o Flatten(edge_lines, 1, Len(order))

(***************************************************************************)
(* query_ccg                                                               *)
(***************************************************************************)
\* [(eid, data) for eid, data in nodes.items() if data.get('name') == name]
matching_entities(nodes, entity_name) ==
    SelectSeq(nodes.keys,
              LAMBDA eid : Get(nodes.map[eid], "name", None) = entity_name)

\* [nodes.get(cid) for cid in edges.get(entity_id, []) if cid in nodes]
callee_data(nodes, edges, entity_id) ==
    LET callees == SelectSeq(DictGet(edges, entity_id, <<>>),
                             LAMBDA cid : Has(nodes, cid))
    IN  [k \in 1..Len(callees) |-> nodes.map[callees[k]]]

\* the callers taken from the entity's own adjacency list
caller_data_outgoing(nodes, edges, entity_id) ==
    callee_data(nodes, edges, entity_id)

\* nodes.get(from_id) for every from_id of edges.items() whose list holds
\* entity_id
caller_data(nodes, edges, entity_id) ==
    LET callers == SelectSeq(edges.keys,
                             LAMBDA from_id :
                                 entity_id \in Range(edges.map[from_id]))
    IN  [k \in 1..Len(callers) |-> DictGet(nodes, callers[k], None)]

\* what the loop body of lines 303-322 appends for a matching entity
result_block(nodes, edges, query_type, entity_id) ==
    IF query_type = "info" THEN nodes.map[entity_id]
    ELSE IF query_type = "callees"
    THEN [entity |-> nodes.map[entity_id],
          calls |-> callee_data(nodes, edges, entity_id)]
    ELSE [entity |-> nodes.map[entity_id],
          called_by |-> caller_data(nodes, edges, entity_id)]

\* query_ccg without the test of line 298
query_ccg_no_miss(ccg_dict, query_type, entity_name) ==
    LET nodes == Get(ccg_dict, "nodes", EmptyDict)
        edges == Get(ccg_dict, "edges", EmptyDict)
        matching == matching_entities(nodes, entity_name)
    IN  [results |->
            [k \in 1..Len(matching) |->
                result_block(nodes, edges, query_type, matching[k])]]

\* query_ccg answering for the first matching entity only
query_ccg_first_match(ccg_dict, query_type, entity_name) ==
    LET nodes == Get(ccg_dict, "nodes", EmptyDict)
        edges == Get(ccg_dict, "edges", EmptyDict)
        matching == matching_entities(nodes, entity_name)
    IN  IF matching = <<>>
        THEN [error |-> "Entity \"" \o entity_name \o "\" not found"]
        ELSE [results |->
                <<result_block(nodes, edges, query_type, matching[1])>>]

query_ccg(ccg_dict, query_type, entity_name) ==
    LET nodes == Get(ccg_dict, "nodes", EmptyDict)
        edges == Get(ccg_dict, "edges", EmptyDict)
        matching == matching_entities(nodes, entity_name)
    IN  IF matching = <<>>
        THEN [error |-> "Entity \"" \o entity_name \o "\" not found"]
        ELSE IF query_type \in {"info", "callees", "callers"}
        THEN [results |->
                [k \in 1..Len(matching) |->
                    result_block(nodes, edges, query_type, matching[k])]]
        ELSE [results |-> <<>>]

(***************************************************************************)
(* What reading does to the dict read.  edges.get(key, []) leaves the dict *)
(* as it is, whether or not it holds the key.                              *)
(***************************************************************************)
AfterSubscript(d, key) == IF Has(d, key) THEN d ELSE DictSet(d, key, <<>>)

AfterGet(d, key) == d

\* the dict after the lookups of keys[1..k], made in this order
RECURSIVE Looked(_, _, _)
Looked(d, keys, k) ==
    IF k = 0 THEN d
    ELSE Only({AfterGet(sofar, keys[k]) :
                 sofar \in {Looked(d, keys, k - 1)}})

\* the keys generate_mermaid_diagram looks up in edges (lines 236 and 266)
DiagramLookups(ccg_dict, max_nodes, seed) ==
    LET nodes == Get(ccg_dict, "nodes", EmptyDict)
        edges == Get(ccg_dict, "edges", EmptyDict)
    IN  nodes.keys
            \o SetOrder(seed, top_node_ids(nodes, edges, max_nodes),
                        nodes.keys)

\* the keys query_ccg looks up in edges (line 307)
QueryLookups(ccg_dict, query_type, entity_name) ==
    IF query_type = "callees"
    THEN matching_entities(Get(ccg_dict, "nodes", EmptyDict), entity_name)
    ELSE <<>>

(***************************************************************************)
(* Extraction records handed to build_code_context_graph: the shapes       *)
(* parse_source_file returns (with the path summarize_repo adds), the      *)
(* records of the end-to-end scenario, and hand-built records a caller may *)
(* pass (no content, no path, an error beside names).                      *)
(***************************************************************************)
MainText == "def run_server():\n    init_app()"

ScenarioMain ==
    [path |-> "main.py", type |-> "python", funcs |-> <<"run_server">>,
     content |-> MainText]

ScenarioModels ==
    [path |-> "models.py", type |-> "python", funcs |-> <<"init_app">>]

ScenarioFiles == <<ScenarioMain, ScenarioModels>>

PythonRecords ==
    { [type |-> "python", funcs |-> <<"init_app">>, classes |-> <<>>,
       imports |-> <<>>, content |-> "def init_app():\n    pass",
       path |-> "models.py"],
      [type |-> "python", funcs |-> <<"init", "Task">>, classes |-> <<"Task">>,
       imports |-> <<"os">>,
       content |-> "class Task:\n    def init(self): pass\ndef Task(): pass",
       path |-> "main.py"],
      [type |-> "python", funcs |-> <<"run", "init", "init">>,
       classes |-> <<>>, imports |-> <<>>,
       content |-> "def run():\n    def init(): pass\ndef init(): run()",
       path |-> "util.py"] }

OtherLanguageRecords ==
    { [type |-> "jac", walkers |-> <<"Task">>, nodes |-> <<"Task">>,
       enums |-> <<>>, abilities |-> <<"init">>, globals |-> <<>>,
       edges |-> <<>>, imports |-> <<>>,
       content |-> "node Task {}\nwalker Task { can init with entry {} }",
       path |-> "app.jac"],
      [type |-> "rust", funcs |-> <<"init">>, structs |-> <<"Task">>,
       enums |-> <<"Mode">>, traits |-> <<"Exec">>, imports |-> <<>>,
       content |-> "enum Mode {}\ntrait Exec {}\nstruct Task {}\nfn init() {}",
       path |-> "lib.rs"],
      [type |-> "javascript", funcs |-> <<"init_app">>, classes |-> <<"Task">>,
       imports |-> <<>>,
       content |-> "class Task {}\nfunction init_app() {}",
       path |-> "app.js"],
      [type |-> "unknown", content |-> "run_server init_app",
       path |-> "README.md"] }

ErrorRecords ==
    { [type |-> "error", error |-> "Permission denied", content |-> "",
       path |-> "main.py"],
      [type |-> "python", error |-> "stale", funcs |-> <<"init_app">>,
       content |-> "init_app run_server", path |-> "models.py"] }

HandBuiltRecords ==
    { ScenarioMain, ScenarioModels,
      [type |-> "python", funcs |-> <<"init">>,
       content |-> "def init(): pass"] }

Records ==
    PythonRecords \cup OtherLanguageRecords \cup ErrorRecords
        \cup HandBuiltRecords

RECURSIVE Lists(_)
Lists(n) ==
    IF n = 0 THEN {<<>>}
    ELSE Lists(n - 1)
            \cup {Append(l, r) : l \in {x \in Lists(n - 1) : Len(x) = n - 1},
                                 r \in Records}

(***************************************************************************)
(* build_code_context_graph as a process: one step per record and pass.    *)
(***************************************************************************)
NoCall == [op |-> "none"]

\* no reader has answered yet: the value of the first of the same calls made
\* in a row, (as a list of at most one item) the value of the first made in
\* this run, and whether the call has been made again in this run
NoFirst == [value |-> None, inRun |-> <<>>, repeated |-> FALSE]

\* nothing passed to the graph yet: the ids given to add_node, the non-empty
\* file_path values given with them, per file_path the ids in the order in
\* which they were first given with it, per id the targets of the add_edge
\* calls made between two ids given before, and per such pair the type of
\* the latest of these calls
NoHist ==
    [ids |-> {}, paths |-> {}, declared |-> <<>>, sent |-> <<>>,
     label |-> <<>>]

NoReader ==
    /\ file_tree = <<>>
    /\ hashseed = 0
    /\ asked = NoCall
    /\ reply = None
    /\ firstReply = NoFirst

Init ==
    /\ parsed_files \in Lists(MaxFiles)
    /\ pc = "pass1"
    /\ i = 1
    /\ ccg = NewGraph
    /\ result = None
    /\ call = NoCall
    /\ before = NewGraph
    /\ ncalls = 0
    /\ hist = NoHist
    /\ NoReader

Pass1Step ==
    /\ pc = "pass1"
    /\ i <= Len(parsed_files)
    /\ ccg' = Pass1Record(ccg, parsed_files[i])
    /\ i' = i + 1
    /\ UNCHANGED <<parsed_files, pc, result, call, before, ncalls, hist,
                 readerVars, file_tree>>

StartPass2 ==
    /\ pc = "pass1"
    /\ i > Len(parsed_files)
    /\ pc' = "pass2"
    /\ i' = 1
    /\ UNCHANGED <<parsed_files, ccg, result, call, before, ncalls, hist,
                 readerVars, file_tree>>

Pass2Step ==
    /\ pc = "pass2"
    /\ i <= Len(parsed_files)
    /\ ccg' = Pass2Record(ccg, parsed_files[i])
    /\ i' = i + 1
    /\ UNCHANGED <<parsed_files, pc, result, call, before, ncalls, hist,
                 readerVars, file_tree>>

Return ==
    /\ pc = "pass2"
    /\ i > Len(parsed_files)
    /\ result' = to_dict(ccg)
    /\ pc' = "done"
    /\ UNCHANGED <<parsed_files, i, ccg, call, before, ncalls, hist,
                 readerVars, file_tree>>

Next == Pass1Step \/ StartPass2 \/ Pass2Step \/ Return

Spec == Init /\ [][Next]_vars

(***************************************************************************)
(* A client of class CodeContextGraph calling add_node and add_edge in any *)
(* order, with ids that may or may not be nodes.                           *)
(***************************************************************************)
ClientIds == {"main.py::init_app", "models.py::Task", "ghost"}

ClientData ==
    { [name |-> "init_app", type |-> "function", language |-> "python",
       file_path |-> "main.py"],
      [name |-> "Task", type |-> "class", file_path |-> "models.py"],
      [name |-> "init_app"] }

EdgeTypes == {"calls", "inherits"}

\* the value of a function at a point, or a default outside its domain
At(f, x, default) == IF x \in DOMAIN f THEN f[x] ELSE default

\* the record of the calls after add_node(entity_id, entity_data)
HistAddNode(h, entity_id, entity_data) ==
    LET file_path == Get(entity_data, "file_path", "")
        sofar == At(h.declared, file_path, <<>>)
    IN  [h EXCEPT
            !.ids = @ \cup {entity_id},
            !.paths = IF file_path # "" THEN @ \cup {file_path} ELSE @,
            !.declared =
                IF file_path # "" /\ entity_id \notin Range(sofar)
                THEN (file_path :> Append(sofar, entity_id)) @@ @
                ELSE @]

\* the record of the calls after add_edge(from_id, to_id, edge_type)
HistAddEdge(h, from_id, to_id, edge_type) ==
    IF from_id \in h.ids /\ to_id \in h.ids
    THEN [h EXCEPT
            !.sent = (from_id :> Append(At(@, from_id, <<>>), to_id)) @@ @,
            !.label = (<<from_id, to_id>> :> edge_type) @@ @]
    ELSE h

InitGraph ==
    /\ parsed_files = <<>>
    /\ pc = "client"
    /\ i = 0
    /\ ccg = NewGraph
    /\ result = None
    /\ call = NoCall
    /\ before = NewGraph
    /\ ncalls = 0
    /\ hist = NoHist
    /\ NoReader

AddNode ==
    /\ ncalls < MaxCalls
    /\ \E entity_id \in ClientIds, entity_data \in ClientData :
          /\ ccg' = add_node(ccg, entity_id, entity_data)
          /\ call' = [op |-> "add_node", entity_id |-> entity_id,
                      entity_data |-> entity_data]
          /\ hist' = HistAddNode(hist, entity_id, entity_data)
    /\ before' = ccg
    /\ ncalls' = ncalls + 1
    /\ UNCHANGED <<parsed_files, pc, i, result, readerVars, file_tree>>

AddEdge ==
    /\ ncalls < MaxCalls
    /\ \E from_id \in ClientIds, to_id \in ClientIds, edge_type \in EdgeTypes :
          /\ ccg' = add_edge(ccg, from_id, to_id, edge_type)
          /\ call' = [op |-> "add_edge", from_id |-> from_id, to_id |-> to_id,
                      edge_type |-> edge_type]
          /\ hist' = HistAddEdge(hist, from_id, to_id, edge_type)
    /\ before' = ccg
    /\ ncalls' = ncalls + 1
    /\ UNCHANGED <<parsed_files, pc, i, result, readerVars, file_tree>>

NextGraph == AddNode \/ AddEdge

SpecGraph == InitGraph /\ [][NextGraph]_vars

(***************************************************************************)
(* A client growing one graph: add_node with a fresh id, or add_edge from  *)
(* the first node to itself, so that every pair (number of nodes, number   *)
(* of edges) within the bounds is reached.                                 *)
(***************************************************************************)
InitStats ==
    /\ parsed_files = <<>>
    /\ pc = "stats"
    /\ i = 0
    /\ ccg = NewGraph
    /\ result = None
    /\ call = NoCall
    /\ before = NewGraph
    /\ ncalls = 0
    /\ hist = NoHist
    /\ NoReader

Grow ==
    /\ ncalls < MaxStatNodes + MaxStatEdges
    /\ Len(ccg.nodes.keys) < MaxStatNodes
    /\ LET entity_id == "n" \o ToString(Len(ccg.nodes.keys) + 1)
           entity_data == [name |-> entity_id]
       IN  /\ ccg' = add_node(ccg, entity_id, entity_data)
           /\ call' = [op |-> "add_node", entity_id |-> entity_id,
                       entity_data |-> entity_data]
           /\ hist' = HistAddNode(hist, entity_id, entity_data)
    /\ before' = ccg
    /\ ncalls' = ncalls + 1
    /\ UNCHANGED <<parsed_files, pc, i, result, readerVars, file_tree>>

Link ==
    /\ ncalls < MaxStatNodes + MaxStatEdges
    /\ get_stats(ccg).edge_count < MaxStatEdges
    /\ ccg' = add_edge(ccg, "n1", "n1", "calls")
    /\ call' = [op |-> "add_edge", from_id |-> "n1", to_id |-> "n1",
                edge_type |-> "calls"]
    /\ hist' = HistAddEdge(hist, "n1", "n1", "calls")
    /\ before' = ccg
    /\ ncalls' = ncalls + 1
    /\ UNCHANGED <<parsed_files, pc, i, result, readerVars, file_tree>>

NextStats == Grow \/ Link

SpecStats == InitStats /\ [][NextStats]_vars

(***************************************************************************)
(* The readers of a snapshot: after assembly, generate_mermaid_diagram and *)
(* query_ccg are called on the snapshot in any order, any number of times; *)
(* NewRun is a later run of the program on the same records, under another *)
(* hash seed.                                                              *)
(***************************************************************************)
\* the records of a repository with the files main.py, app.jac, lib/util.py
\* and lib.util.py
ReadRecords ==
    {r \in PythonRecords : r.path = "main.py"}
        \cup {r \in OtherLanguageRecords : r.type = "jac"}
        \cup {[r EXCEPT !.path = "lib/util.py"] :
                 r \in {x \in PythonRecords : x.path = "util.py"}}
        \cup {[type |-> "python", funcs |-> <<"init">>, classes |-> <<>>,
               imports |-> <<>>, content |-> "def init(): pass",
               path |-> "lib.util.py"]}

RECURSIVE ReadLists(_)
ReadLists(n) ==
    IF n = 0 THEN {<<>>}
    ELSE ReadLists(n - 1)
            \cup {Append(l, r) :
                    l \in {x \in ReadLists(n - 1) : Len(x) = n - 1},
                    r \in ReadRecords}

HashSeeds == 0..MaxSeed

MaxNodesArgs == {-1, 0, 2, DefaultMaxNodes}

QueryTypes == {"info", "callees", "callers", "neighbours"}

QueryNames == {"init", "missing"}

InitRead ==
    /\ parsed_files \in ReadLists(MaxRead)
    /\ pc = "done"
    /\ i = Len(parsed_files) + 1
    /\ ccg = Pass2(Pass1(NewGraph, parsed_files), parsed_files)
    /\ result = to_dict(ccg)
    /\ call = NoCall
    /\ before = NewGraph
    /\ ncalls = 0
    /\ hist = NoHist
    /\ hashseed \in HashSeeds
    /\ asked = NoCall
    /\ reply = None
    /\ firstReply = NoFirst
    /\ file_tree = <<>>

\* what a reader's call leaves in the variables: the call, its value, the
\* value of the first of the calls equal to it made in a row (in any run, and
\* in this run), and the snapshot after the lookups in its edges
Answer(this, value, lookups) ==
    /\ asked' = this
    /\ reply' = value
    /\ firstReply' =
          IF asked # this
          THEN [value |-> value, inRun |-> <<value>>, repeated |-> FALSE]
          ELSE IF firstReply.inRun = <<>>
          THEN [firstReply EXCEPT !.inRun = <<value>>]
          ELSE [firstReply EXCEPT !.repeated = TRUE]
    /\ result' = [result EXCEPT !.edges = Looked(@, lookups, Len(lookups))]
    /\ UNCHANGED <<parsed_files, pc, i, ccg, call, before, ncalls, hist,
                   hashseed, file_tree>>

Diagram ==
    /\ pc = "done"
    /\ \E max_nodes \in MaxNodesArgs :
          Answer([op |-> "generate_mermaid_diagram", max_nodes |-> max_nodes],
                 generate_mermaid_diagram(result, max_nodes, hashseed),
                 DiagramLookups(result, max_nodes, hashseed))

Query ==
    /\ pc = "done"
    /\ \E query_type \in QueryTypes, entity_name \in QueryNames :
          Answer([op |-> "query_ccg", query_type |-> query_type,
                  entity_name |-> entity_name],
                 query_ccg(result, query_type, entity_name),
                 QueryLookups(result, query_type, entity_name))

NewRun ==
    /\ pc = "done"
    /\ hashseed' \in HashSeeds \ {hashseed}
    /\ result' = build_code_context_graph(parsed_files)
    /\ firstReply' = [firstReply EXCEPT !.inRun = <<>>, !.repeated = FALSE]
    /\ UNCHANGED <<parsed_files, pc, i, ccg, call, before, ncalls, hist,
                   asked, reply, file_tree>>

NextRead == Diagram \/ Query \/ NewRun

SpecRead == InitRead /\ [][NextRead]_vars

(***************************************************************************)
(* Regular expressions of parser_engine.py.  A pattern is a sequence of    *)
(* items: a literal text, the word boundary \b, or a character class with  *)
(* a repetition count (min, max), greedy or lazy, captured or not.  Every  *)
(* pattern of the parsers has one capture group, so re.findall returns the *)
(* list of the captured texts.                                             *)
(***************************************************************************)
Lower ==
    {"a", "b", "c", "d", "e", "f", "g", "h", "i", "j", "k", "l", "m", "n",
     "o", "p", "q", "r", "s", "t", "u", "v", "w", "x", "y", "z"}

Upper ==
    {"A", "B", "C", "D", "E", "F", "G", "H", "I", "J", "K", "L", "M", "N",
     "O", "P", "Q", "R", "S", "T", "U", "V", "W", "X", "Y", "Z"}

Digits == {"0", "1", "2", "3", "4", "5", "6", "7", "8", "9"}

\* the longest repetition a pattern of the parsers is tried with
Unbounded == 500

\* \w, \s, ., ['"], [^'"], [^)], [^;], [^}], [\w.], [{:]
WordClass == [chars |-> Lower \cup Upper \cup Digits \cup {"_"}, neg |-> FALSE]

SpaceClass == [chars |-> {" ", "\n", "\t", "\r"}, neg |-> FALSE]

AnyClass == [chars |-> {"\n"}, neg |-> TRUE]

QuoteClass == [chars |-> {"'", "\""}, neg |-> FALSE]

Not(chars) == [chars |-> chars, neg |-> TRUE]

Lit(s) == [t |-> "lit", s |-> s]

WordBoundary == [t |-> "b"]

Rep(class, min, max, lazy, cap) ==
    [t |-> "cls", class |-> class, min |-> min, max |-> max, lazy |-> lazy,
     cap |-> cap]

One(class) == Rep(class, 1, 1, FALSE, FALSE)

Optional(class) == Rep(class, 0, 1, FALSE, FALSE)

Star(class) == Rep(class, 0, Unbounded, FALSE, FALSE)

Plus(class) == Rep(class, 1, Unbounded, FALSE, FALSE)

LazyStar(class) == Rep(class, 0, Unbounded, TRUE, FALSE)

Group(class) == Rep(class, 1, Unbounded, FALSE, TRUE)

\* the character at position pos is in the class
InClass(text, pos, class) ==
    /\ pos >= 1
    /\ pos <= Len(text)
    /\ (SubSeq(text, pos, pos) \in class.chars) # class.neg

NoMatch == [ok |-> FALSE, end |-> 0, cap |-> ""]

\* the match of the items k.. of the pattern that starts at position pos, as
\* the backtracking search of re finds it: a greedy repetition is tried from
\* its longest run down, a lazy one from its shortest up.  end is the
\* position after the match, cap the captured text.
RECURSIVE MatchAt(_, _, _, _)
MatchAt(text, pattern, k, pos) ==
    IF k > Len(pattern) THEN [ok |-> TRUE, end |-> pos, cap |-> ""]
    ELSE LET item == pattern[k]
         IN  IF item.t = "lit"
             THEN IF /\ pos + Len(item.s) - 1 <= Len(text)
                     /\ SubSeq(text, pos, pos + Len(item.s) - 1) = item.s
                  THEN MatchAt(text, pattern, k + 1, pos + Len(item.s))
                  ELSE NoMatch
             ELSE IF item.t = "b"
             THEN IF InClass(text, pos - 1, WordClass)
                        # InClass(text, pos, WordClass)
                  THEN MatchAt(text, pattern, k + 1, pos)
                  ELSE NoMatch
             ELSE LET limit == Min(item.max, Len(text) - pos + 1)
                      run == CHOOSE n \in 0..limit :
                                /\ \A j \in 0..(n - 1) :
                                      InClass(text, pos + j, item.class)
                                /\ n = limit
                                      \/ ~InClass(text, pos + n, item.class)
                      tries ==
                          ListOf([j \in 1..(run - item.min + 1) |->
                                     MatchAt(text, pattern, k + 1,
                                             pos + item.min + j - 1)])
                      good == {j \in 1..Len(tries) : tries[j].ok}
                      pick == IF item.lazy
                              THEN CHOOSE j \in good : \A m \in good : j <= m
                              ELSE CHOOSE j \in good : \A m \in good : j >= m
                      count == item.min + pick - 1
                  IN  IF good = {} THEN NoMatch
                      ELSE IF item.cap
                      THEN [tries[pick] EXCEPT
                               !.cap = SubSeq(text, pos, pos + count - 1)]
                      ELSE tries[pick]

\* the captures of the matches found from position pos on, given the match
\* that starts at every position: the search resumes where a match ended
RECURSIVE Captures(_, _)
Captures(starts, pos) ==
    LET ahead == {p \in pos..Len(starts) : starts[p].ok}
    IN  IF ahead = {} THEN <<>>
        ELSE LET p == CHOOSE q \in ahead : \A r \in ahead : q <= r
             IN  <<starts[p].cap>> \o Captures(starts, starts[p].end)

\* re.findall(pattern, text)
findall(pattern, text) ==
    Captures(ListOf([pos \in 1..Len(text) |-> MatchAt(text, pattern, 1, pos)]),
             1)

\* r'\bKEYWORD\s+(\w+)'
Declaration(keyword) ==
    <<WordBoundary, Lit(keyword), Plus(SpaceClass), Group(WordClass)>>

\* r'\bconst\s+(\w+)\s*=\s*\([^)]*\)\s*=>'
ArrowFunction ==
    <<WordBoundary, Lit("const"), Plus(SpaceClass), Group(WordClass),
      Star(SpaceClass), Lit("="), Star(SpaceClass), Lit("("),
      Star(Not({")"})), Lit(")"), Star(SpaceClass), Lit("=>")>>

\* r'import\s+.*?from\s+[\'"]([^\'"]+)[\'"]'
ImportFrom ==
    <<Lit("import"), Plus(SpaceClass), LazyStar(AnyClass), Lit("from"),
      Plus(SpaceClass), One(QuoteClass), Group(Not({"'", "\""})),
      One(QuoteClass)>>

\* r'require\([\'"]([^\'"]+)[\'"]\)'
Require ==
    <<Lit("require("), One(QuoteClass), Group(Not({"'", "\""})),
      One(QuoteClass), Lit(")")>>

\* r'use\s+([^;]+);'
UseStatement == <<Lit("use"), Plus(SpaceClass), Group(Not({";"})), Lit(";")>>

\* r'\bKEYWORD\s+(\w+)\s*[{:]?'
JacDeclaration(keyword) ==
    Declaration(keyword)
        \o <<Star(SpaceClass), Optional([chars |-> {"{", ":"}, neg |-> FALSE])>>

\* r'\bcan\s+(\w+)\s+with'
Ability == Declaration("can") \o <<Plus(SpaceClass), Lit("with")>>

\* r'\bglob\s+(\w+)\s*='
Global == Declaration("glob") \o <<Star(SpaceClass), Lit("=")>>

\* r'import:py\s+from\s+(\w+)' and r'import:jac\s+from\s+(\w+)'
JacImport(language) ==
    <<Lit("import:" \o language), Plus(SpaceClass), Lit("from"),
      Plus(SpaceClass), Group(WordClass)>>

\* r'import\s+from\s+[\w.]+\s*{\s*([^}]+)\s*}'
BraceImport ==
    <<Lit("import"), Plus(SpaceClass), Lit("from"), Plus(SpaceClass),
      Plus([chars |-> WordClass.chars \cup {"."}, neg |-> FALSE]),
      Star(SpaceClass), Lit("{"), Star(SpaceClass), Group(Not({"}"})),
      Star(SpaceClass), Lit("}")>>

(***************************************************************************)
(* parser_engine.py.  A file of the repository is a record: its path, the  *)
(* text read() returns (code), the message of the exception open() or      *)
(* read() raises for it (fault, "" when the file can be read) and, for a   *)
(* python file, what ast.parse makes of the text (tree): the nodes of the  *)
(* module in the order of ast.walk, or the SyntaxError it raises.  An      *)
(* exception that leaves a function is the value Raised(message).          *)
(***************************************************************************)
Raised(message) == [raised |-> message]

IsRaised(value) == "raised" \in DOMAIN value

\* the items of a list without the repeated ones, in first-occurrence order
Unique(items) ==
    LET firsts == SelectSeq(ListOf([k \in 1..Len(items) |-> k]),
                            LAMBDA k : \A j \in 1..(k - 1) :
                                           items[j] # items[k])
    IN  [k \in 1..Len(firsts) |-> items[firsts[k]]]

\* list(set(items)) for a list of str: the set iterated under the hash seed
ListOfSet(items, seed) == SetOrder(seed, Range(items), Unique(items))

\* [n.name for n in ast.walk(tree) if isinstance(n, kind)]
NamesOf(tree, kind) ==
    LET defs == SelectSeq(tree.body, LAMBDA n : n.node = kind)
    IN  [k \in 1..Len(defs) |-> defs[k].name]

\* the imports list of lines 22-28
ImportsOf(tree) ==
    LET Targets(n) ==
            IF n.node = "Import" THEN n.names
            ELSE IF n.node = "ImportFrom" /\ n.module # "" THEN <<n.module>>
            ELSE <<>>
        targets == [k \in 1..Len(tree.body) |-> Targets(tree.body[k])]
    IN  Flatten(targets, 1, Len(targets))

parse_python(file) ==
    IF file.fault # "" THEN Raised(file.fault)
    ELSE IF file.tree.kind = "SyntaxError"
    THEN [type |-> "python", error |-> "Parse error: " \o file.tree.msg,
          funcs |-> <<>>, classes |-> <<>>, imports |-> <<>>,
          content |-> file.code]
    ELSE [type |-> "python",
          funcs |-> NamesOf(file.tree, "FunctionDef"),
          classes |-> NamesOf(file.tree, "ClassDef"),
          imports |-> ImportsOf(file.tree),
          content |-> file.code]

parse_javascript(file, seed) ==
    IF file.fault # "" THEN Raised(file.fault)
    ELSE LET code == file.code
             funcs == findall(Declaration("function"), code)
                         \o findall(ArrowFunction, code)
             classes == findall(Declaration("class"), code)
             imports == findall(ImportFrom, code) \o findall(Require, code)
         IN  [type |-> "javascript",
              funcs |-> ListOfSet(funcs, seed),
              classes |-> ListOfSet(classes, seed),
              imports |-> ListOfSet(imports, seed),
              content |-> code]

parse_rust(file, seed) ==
    IF file.fault # "" THEN Raised(file.fault)
    ELSE LET code == file.code
         IN  [type |-> "rust",
              funcs |-> ListOfSet(findall(Declaration("fn"), code), seed),
              structs |-> ListOfSet(findall(Declaration("struct"), code), seed),
              enums |-> ListOfSet(findall(Declaration("enum"), code), seed),
              traits |-> ListOfSet(findall(Declaration("trait"), code), seed),
              imports |-> findall(UseStatement, code),
              content |-> code]

parse_jac(file, seed) ==
    IF file.fault # "" THEN Raised(file.fault)
    ELSE LET content == file.code
             imports == findall(JacImport("py"), content)
                           \o findall(JacImport("jac"), content)
                           \o findall(BraceImport, content)
         IN  [type |-> "jac",
              walkers |->
                  ListOfSet(findall(JacDeclaration("walker"), content), seed),
              nodes |->
                  ListOfSet(findall(JacDeclaration("node"), content), seed),
              enums |->
                  ListOfSet(findall(JacDeclaration("enum"), content), seed),
              abilities |-> ListOfSet(findall(Ability, content), seed),
              globals |-> ListOfSet(findall(Global, content), seed),
              edges |-> ListOfSet(findall(Declaration("edge"), content), seed),
              imports |-> imports,
              content |-> content]

parse_generic(file) ==
    IF file.fault # "" THEN Raised(file.fault)
    ELSE [type |-> "unknown",
          content |-> SubSeq(file.code, 1, Min(500, Len(file.code)))]

\* Path(file_path).suffix: the last component of the path from its last dot
\* on, if that dot is neither its first nor its last character
Suffix(file_path) ==
    LET slashes == {k \in 1..Len(file_path) : SubSeq(file_path, k, k) = "/"}
        start == IF slashes = {} THEN 1
                 ELSE 1 + CHOOSE k \in slashes : \A j \in slashes : j <= k
        dots == {k \in (start + 1)..(Len(file_path) - 1) :
                    SubSeq(file_path, k, k) = "."}
    IN  IF dots = {} THEN ""
        ELSE SubSeq(file_path, CHOOSE k \in dots : \A j \in dots : j <= k,
                    Len(file_path))

\* lines 162-172 without the handler of line 173
parse_source_file_unguarded(file, seed) ==
    LET ext == Suffix(file.path)
    IN  IF ext = ".py" THEN parse_python(file)
        ELSE IF ext = ".js" THEN parse_javascript(file, seed)
        ELSE IF ext = ".rs" THEN parse_rust(file, seed)
        ELSE IF ext = ".jac" THEN parse_jac(file, seed)
        ELSE parse_generic(file)

parse_source_file(file, seed) ==
    LET ext == Suffix(file.path)
        parsed == IF ext = ".py" THEN parse_python(file)
                  ELSE IF ext = ".js" THEN parse_javascript(file, seed)
                  ELSE IF ext = ".rs" THEN parse_rust(file, seed)
                  ELSE IF ext = ".jac" THEN parse_jac(file, seed)
                  ELSE parse_generic(file)
    IN  IF IsRaised(parsed)
        THEN [type |-> "error", error |-> parsed.raised, content |-> ""]
        ELSE parsed

(***************************************************************************)
(* The extraction loop of summarize_repo (genius/utils.py): every file of  *)
(* the tree is parsed and its record, with the relative path added, is     *)
(* appended to parsed_files; the records are then enriched with the        *)
(* explanations of the jac components and handed, as plain names again, to *)
(* build_code_context_graph.                                               *)
(***************************************************************************)
JsFile ==
    [path |-> "app.js",
     code |-> "function init() {}\nfunction init() {}\n"
              \o "const run = () => init();\nclass Task {}\n"
              \o "import a from 'mod';\nconst m = require('mod');",
     fault |-> ""]

RustFile ==
    [path |-> "src/lib.rs",
     code |-> "use std::io;\nfn init() {}\nmod t {\n use std::io;\n"
              \o " fn init() {}\n}\nstruct Task;\nenum Mode {}\ntrait Exec {}",
     fault |-> ""]

JacFile ==
    [path |-> "app.jac",
     code |-> "import:py from os;\nimport:py from os;\nnode Task {}\n"
              \o "walker Task { can init with entry {} }\nnode Task {}\n"
              \o "glob limit = 1;\nedge link {}",
     fault |-> ""]

PythonFile ==
    [path |-> "main.py",
     code |-> "import os\nfrom . import x\nfrom lib import y\n"
              \o "import os, sys\nclass A:\n    def init(self): pass\n"
              \o "class B:\n    def init(self): pass\ndef A(): pass",
     fault |-> "",
     tree |->
        [kind |-> "Module",
         body |-> <<[node |-> "Import", names |-> <<"os">>],
                    [node |-> "ImportFrom", module |-> ""],
                    [node |-> "ImportFrom", module |-> "lib"],
                    [node |-> "Import", names |-> <<"os", "sys">>],
                    [node |-> "ClassDef", name |-> "A"],
                    [node |-> "ClassDef", name |-> "B"],
                    [node |-> "FunctionDef", name |-> "A"],
                    [node |-> "FunctionDef", name |-> "init"],
                    [node |-> "FunctionDef", name |-> "init"]>>]]

BrokenPythonFile ==
    [path |-> "bad.py",
     code |-> "def run(:\n    pass",
     fault |-> "",
     tree |-> [kind |-> "SyntaxError",
              msg |-> "invalid syntax (<unknown>, line 1)"]]

BinaryFile ==
    [path |-> "logo.png",
     code |-> "",
     fault |-> "'utf-8' codec can't decode byte 0xff in position 0"
               \o ": invalid start byte"]

TextFile ==
    [path |-> "README.md",
     code |-> "# Demo\nRun main.py, then init.",
     fault |-> ""]

RepoFiles ==
    {JsFile, RustFile, JacFile, PythonFile, BrokenPythonFile, BinaryFile,
     TextFile}

RECURSIVE FileTrees(_)
FileTrees(n) ==
    IF n = 0 THEN {<<>>}
    ELSE FileTrees(n - 1)
            \cup {Append(l, f) :
                    l \in {x \in FileTrees(n - 1) : Len(x) = n - 1},
                    f \in RepoFiles}

\* parsed['path'] = ... (line 222)
WithPath(parsed, path) == [path |-> path] @@ parsed

\* attach_explanation (lines 247-253): every name becomes (name, explanation)
attach_explanation(component_list) ==
    [k \in 1..Len(component_list) |->
        <<component_list[k], "Explanation could not be generated.">>]

\* lines 244-256
Enriched(files) ==
    [k \in 1..Len(files) |->
        IF files[k].type = "jac"
        THEN [files[k] EXCEPT !.walkers = attach_explanation(@),
                              !.nodes = attach_explanation(@)]
        ELSE files[k]]

\* lines 262-269: the copies with the names of the jac components
ccg_input_files(files) ==
    [k \in 1..Len(files) |->
        IF files[k].type = "jac"
        THEN [files[k] EXCEPT
                 !.walkers = [j \in 1..Len(@) |-> @[j][1]],
                 !.nodes = [j \in 1..Len(@) |-> @[j][1]]]
        ELSE files[k]]

InitParse ==
    /\ file_tree \in FileTrees(MaxRepo)
    /\ parsed_files = <<>>
    /\ pc = "parse"
    /\ i = 1
    /\ ccg = NewGraph
    /\ result = None
    /\ call = NoCall
    /\ before = NewGraph
    /\ ncalls = 0
    /\ hist = NoHist
    /\ hashseed \in HashSeeds
    /\ asked = NoCall
    /\ reply = None
    /\ firstReply = NoFirst

\* one turn of the loop of lines 218-227; an exception that leaves
\* parse_source_file ends summarize_repo in the handler of line 352
ParseFile ==
    /\ pc = "parse"
    /\ i <= Len(file_tree)
    /\ LET parsed == parse_source_file(file_tree[i], hashseed)
       IN  IF IsRaised(parsed)
           THEN /\ pc' = "fatal"
                /\ UNCHANGED <<parsed_files, i>>
           ELSE /\ parsed_files' =
                      Append(parsed_files, WithPath(parsed, file_tree[i].path))
                /\ i' = i + 1
                /\ pc' = pc
    /\ UNCHANGED <<ccg, result, call, before, ncalls, hist, readerVars,
                   file_tree>>

Explain ==
    /\ pc = "parse"
    /\ i > Len(file_tree)
    /\ parsed_files' = Enriched(parsed_files)
    /\ pc' = "explained"
    /\ UNCHANGED <<i, ccg, result, call, before, ncalls, hist, readerVars,
                   file_tree>>

Assemble ==
    /\ pc = "explained"
    /\ ccg' = Pass2(Pass1(NewGraph, ccg_input_files(parsed_files)),
                    ccg_input_files(parsed_files))
    /\ result' = build_code_context_graph(ccg_input_files(parsed_files))
    /\ pc' = "done"
    /\ UNCHANGED <<parsed_files, i, call, before, ncalls, hist, readerVars,
                   file_tree>>

NextParse == ParseFile \/ Explain \/ Assemble

SpecParse == InitParse /\ [][NextParse]_vars

(***************************************************************************)
(* Vocabulary of the properties.                                           *)
(***************************************************************************)
\* the ordered pairs (u, v) with v in the adjacency list of u
EdgePairs(edges) ==
    UNION {{<<u, v>> : v \in Range(edges.map[u])} : u \in Range(edges.keys)}

NodeIds(self) == Range(self.nodes.keys)

NameOf(self, entity_id) == self.nodes.map[entity_id].name

PathOf(pfile) == Get(pfile, "path", "")

NotError(pfile) == ~HasError(pfile)

\* the ids the file index lists under a path
Indexed(self, file_path) == Range(DictGet(self.file_entities, file_path, <<>>))

\* the ids the file index lists under any other path
IndexedElsewhere(self, file_path) ==
    UNION {Range(self.file_entities.map[q]) :
             q \in Range(self.file_entities.keys) \ {file_path}}

(***************************************************************************)
(* Properties of build_code_context_graph (specification Spec).            *)
(***************************************************************************)

\* C1: for the end-to-end scenario (main.py declaring run_server with the
\* text "def run_server():\n    init_app()", models.py declaring init_app)
\* the snapshot has exactly 2 nodes, stats.edge_count >= 1 and a 'calls'
\* edge from main.py::run_server to models.py::init_app.
C1_EndToEndScenario ==
    (pc = "done" /\ parsed_files = ScenarioFiles) =>
        /\ Len(result.nodes.keys) = 2
        /\ result.stats.node_count = 2
        /\ result.stats.edge_count >= 1
        /\ <<"main.py::run_server", "models.py::init_app">>
                \in EdgePairs(result.edges)
        /\ DictGet(result.edge_types,
                   "main.py::run_server->models.py::init_app", "") = "calls"

\* C2: for every recorded edge u -> v, the content of the file that declares
\* u contains v's name.
C2_EdgeFromContainingFile ==
    \A e \in EdgePairs(ccg.edges) :
        \E k \in 1..Len(parsed_files) :
            /\ PathOf(parsed_files[k]) = ccg.nodes.map[e[1]].file_path
            /\ Contains(Get(parsed_files[k], "content", ""),
                        NameOf(ccg, e[2]))

\* C3: for non-error records A and B with different (non-empty) paths, B
\* declaring an entity n with len(n) >= 4, A declaring an entity and A's
\* content containing n, the assembled graph has a 'calls' edge from some
\* entity of A to B's entity n.
C3_HeuristicResolution ==
    pc = "done" =>
        \A a \in 1..Len(parsed_files), b \in 1..Len(parsed_files) :
            LET A == parsed_files[a]
                B == parsed_files[b]
                FromA == {u \in NodeIds(ccg) :
                            ccg.nodes.map[u].file_path = PathOf(A)}
                InB == {v \in NodeIds(ccg) :
                            ccg.nodes.map[v].file_path = PathOf(B)}
            IN  (NotError(A) /\ NotError(B) /\ PathOf(A) # PathOf(B)
                    /\ PathOf(A) # "" /\ PathOf(B) # ""
                    /\ Pass1Calls(A) # <<>>) =>
                \A v \in InB :
                    (/\ \E c \in Range(Pass1Calls(B)) : c.entity_id = v
                     /\ Len(NameOf(ccg, v)) >= 4
                     /\ Contains(Get(A, "content", ""), NameOf(ccg, v))) =>
                    \E u \in FromA :
                        /\ <<u, v>> \in EdgePairs(ccg.edges)
                        /\ ccg.edge_types.map[<<u, v>>] = "calls"

DeclaredItems ==
    UNION {Range(Pass1Calls(parsed_files[k])) :
             k \in {j \in 1..Len(parsed_files) : NotError(parsed_files[j])}}

\* the (file_path, kind, name) triple of an entity record
Triple(entity_data) ==
    <<entity_data.file_path, entity_data.type, entity_data.name>>

\* C7: entity ids are an injective function of (file_path, kind, name): two
\* declared items with distinct triples never share an id, and in the
\* assembled graph every declared item is still stored under its id with its
\* own triple (none was overwritten by another).
C7_IdInjective ==
    pc = "done" =>
        /\ \A a \in DeclaredItems, b \in DeclaredItems :
              Triple(a.entity_data) # Triple(b.entity_data)
                  => a.entity_id # b.entity_id
        /\ \A a \in DeclaredItems :
              /\ Has(ccg.nodes, a.entity_id)
              /\ Triple(ccg.nodes.map[a.entity_id]) = Triple(a.entity_data)

Recognised == {"python", "jac", "javascript", "rust"}

\* the structural lists of an extraction record and the entity kind of each
StructuralLists ==
    { [field |-> "funcs", kind |-> "function"],
      [field |-> "classes", kind |-> "class"],
      [field |-> "structs", kind |-> "struct"],
      [field |-> "enums", kind |-> "enum"],
      [field |-> "traits", kind |-> "trait"],
      [field |-> "walkers", kind |-> "walker"],
      [field |-> "nodes", kind |-> "node"],
      [field |-> "abilities", kind |-> "ability"] }

\* C8: after pass 1, for every non-error record of a recognised language and
\* every name in any of its structural lists, the nodes mapping holds an
\* entity with that name, the matching kind, the record's language and the
\* record's path as file_path.
C8_Pass1Complete ==
    pc \in {"pass2", "done"} =>
        \A k \in 1..Len(parsed_files) :
            LET pfile == parsed_files[k] IN
            (NotError(pfile) /\ Get(pfile, "type", "") \in Recognised) =>
                \A l \in StructuralLists :
                    \A name \in Range(Get(pfile, l.field, <<>>)) :
                        \E entity_id \in NodeIds(ccg) :
                            ccg.nodes.map[entity_id] =
                                EntityData(name, l.kind, pfile.type,
                                           PathOf(pfile))

\* C9: error records are inert.  At every point of assembly the graph is
\* the one the same pass builds from the list without its error records
\* (nodes, file index and edges alike), and the snapshot returned equals the
\* snapshot of that shorter list.
C9_ErrorRecordsInert ==
    LET kept == SelectSeq(parsed_files, NotError)
        seen == SelectSeq(SubSeq(parsed_files, 1, i - 1), NotError)
    IN  (kept # parsed_files) =>
            /\ pc = "pass1" => ccg = Pass1(NewGraph, seen)
            /\ pc = "pass2" => ccg = Pass2(Pass1(NewGraph, kept), seen)
            /\ pc = "done" => result = build_code_context_graph(kept)

\* C9 witness: a finished assembly whose input holds an error record that
\* carries names and content, beside a record that produced edges.
C9_Witness ==
    /\ pc = "done"
    /\ \E k \in 1..Len(parsed_files) :
          /\ HasError(parsed_files[k])
          /\ Get(parsed_files[k], "funcs", <<>>) # <<>>
          /\ Get(parsed_files[k], "content", "") # ""
    /\ result.stats.edge_count > 0

(***************************************************************************)
(* Properties of class CodeContextGraph (specification SpecGraph).         *)
(***************************************************************************)

\* C5: add_edge with from_id or to_id not a key of nodes changes nothing:
\* nodes, adjacency (keys included), type index, file index and stats are
\* the same before and after the call.
C5_AddEdgeNoOp ==
    (/\ call.op = "add_edge"
     /\ ~(Has(before.nodes, call.from_id) /\ Has(before.nodes, call.to_id)))
        => /\ ccg.nodes = before.nodes
           /\ ccg.edges = before.edges
           /\ ccg.edge_types = before.edge_types
           /\ ccg.file_entities = before.file_entities
           /\ get_stats(ccg) = get_stats(before)

\* C5 witness: add_edge was called on a graph that already has edges, from
\* an id that is a node to an id that is not.
C5_Witness ==
    /\ call.op = "add_edge"
    /\ Has(before.nodes, call.from_id)
    /\ ~Has(before.nodes, call.to_id)
    /\ before.edges.keys # <<>>

\* C6: every key of the adjacency mapping, every id inside an adjacency list
\* and both components of every type-index key are keys of nodes.
C6_EdgeClosure ==
    /\ \A u \in Range(ccg.edges.keys) :
          /\ Has(ccg.nodes, u)
          /\ \A v \in Range(ccg.edges.map[u]) : Has(ccg.nodes, v)
    /\ \A key \in Range(ccg.edge_types.keys) :
          Has(ccg.nodes, key[1]) /\ Has(ccg.nodes, key[2])

\* C6 witness: the graph holds an edge between two different nodes, and the
\* last call tried to add an edge whose source is not a node.
C6_Witness ==
    /\ \E e \in EdgePairs(ccg.edges) : e[1] # e[2]
    /\ call.op = "add_edge"
    /\ ~Has(ccg.nodes, call.from_id)
    /\ Has(ccg.nodes, call.to_id)

\* C10: add_node is an upsert, last write wins: after add_node(id, d) the
\* record of id is exactly d, id is one key of nodes (counted once in
\* node_count), every other entity's record is what it was, and the edges
\* and the type index are unchanged.
C10_AddNodeUpsert ==
    call.op = "add_node" =>
        /\ ccg.nodes.map[call.entity_id] = call.entity_data
        /\ Cardinality({k \in 1..Len(ccg.nodes.keys) :
                            ccg.nodes.keys[k] = call.entity_id}) = 1
        /\ get_stats(ccg).node_count =
                Cardinality(NodeIds(before) \cup {call.entity_id})
        /\ \A other \in NodeIds(before) \ {call.entity_id} :
                /\ Has(ccg.nodes, other)
                /\ ccg.nodes.map[other] = before.nodes.map[other]
        /\ ccg.edges = before.edges
        /\ ccg.edge_types = before.edge_types

\* C10 witness: add_node was called for an id already stored with a record
\* that has a field the new record lacks, in a graph with another node and
\* an edge.
C10_Witness ==
    /\ call.op = "add_node"
    /\ Has(before.nodes, call.entity_id)
    /\ DOMAIN before.nodes.map[call.entity_id] \ DOMAIN call.entity_data # {}
    /\ NodeIds(before) \ {call.entity_id} # {}
    /\ before.edges.keys # <<>>

\* C11: after any sequence of add_node calls the file-index bucket of a path
\* is the list of the entity ids declared with that file_path, each id once,
\* in the order in which the ids were first declared.
C11_FileIndexShape ==
    /\ Range(ccg.file_entities.keys) = DOMAIN hist.declared
    /\ \A file_path \in DOMAIN hist.declared :
          DictGet(ccg.file_entities, file_path, <<>>)
              = hist.declared[file_path]

\* C12: the adjacency list of an id holds one entry per successful add_edge
\* call from that id, in call order, duplicates kept; the type index holds
\* exactly one label for each ordered pair present in the adjacency lists and
\* for no other pair, the type given by the most recent add_edge of the pair
\* (in the snapshot too, under the key "from->to").
C12_StorageMultiplicity ==
    /\ Range(ccg.edges.keys) = DOMAIN hist.sent
    /\ \A from_id \in DOMAIN hist.sent :
          ccg.edges.map[from_id] = hist.sent[from_id]
    /\ Range(ccg.edge_types.keys) = EdgePairs(ccg.edges)
    /\ Len(ccg.edge_types.keys) = Cardinality(Range(ccg.edge_types.keys))
    /\ DOMAIN hist.label = EdgePairs(ccg.edges)
    /\ \A pair \in DOMAIN hist.label :
          /\ ccg.edge_types.map[pair] = hist.label[pair]
          /\ DictGet(to_dict(ccg).edge_types,
                     pair[1] \o "->" \o pair[2], None) = hist.label[pair]

\* C12 witness: add_edge has just repeated an ordered pair that was stored
\* under another type, so that the adjacency list holds the target twice.
C12_Witness ==
    /\ call.op = "add_edge"
    /\ Has(before.edge_types, <<call.from_id, call.to_id>>)
    /\ before.edge_types.map[<<call.from_id, call.to_id>>] # call.edge_type
    /\ Len(SelectSeq(ccg.edges.map[call.from_id],
                     LAMBDA to_id : to_id = call.to_id)) >= 2

\* the number of targets the successful add_edge calls have given, over the
\* source ids of the set S
RECURSIVE TotalSent(_, _)
TotalSent(sent, S) ==
    IF S = {} THEN 0
    ELSE LET from_id == CHOOSE x \in S : TRUE
         IN  Len(sent[from_id]) + TotalSent(sent, S \ {from_id})

\* C13: node_count is the number of distinct entity ids added, edge_count
\* the total number of adjacency-list entries (duplicate edges counted),
\* file_count the number of distinct non-empty file_path values given with
\* the added entities (an entity without file_path adds no file).
C13_Stats ==
    LET stats == get_stats(ccg)
    IN  /\ stats.node_count = Cardinality(hist.ids)
        /\ stats.edge_count = TotalSent(hist.sent, DOMAIN hist.sent)
        /\ stats.edge_count = TotalSent(ccg.edges.map, Range(ccg.edges.keys))
        /\ stats.file_count = Cardinality(hist.paths)

\* C13 witness: an entity without file_path has just been added to a graph
\* that has a file bucket and holds the same edge twice.
C13_Witness ==
    /\ call.op = "add_node"
    /\ Get(call.entity_data, "file_path", "") = ""
    /\ get_stats(ccg).file_count >= 1
    /\ \E from_id \in Range(ccg.edges.keys) :
          Len(ccg.edges.map[from_id])
              > Cardinality(Range(ccg.edges.map[from_id]))

(***************************************************************************)
(* Properties of get_stats (specification SpecStats).                      *)
(***************************************************************************)

\* x is a float nearest to the quotient a / n of ints a >= 0, n >= 1: the
\* exact product of x and n differs from a by at most half of what one unit
\* in the last place of x contributes
NearestQuotient(x, a, n) ==
    IF a = 0 THEN x = FloatZero
    ELSE LET scaled_n == n * 2 ^ Max(x.exp, 0)
             scaled_a == a * 2 ^ Max(0 - x.exp, 0)
             p == ExactMul(x, scaled_n)
         IN  /\ x.lead = 1
             /\ \/ /\ p.top = scaled_a
                   /\ p.low[1] = 0 /\ p.low[2] = 0 /\ p.low[3] = 0
                   /\ 2 * p.low[4] <= scaled_n
                \/ /\ p.top = scaled_a - 1
                   /\ p.low[1] = Limb - 1 /\ p.low[2] = Limb - 1
                   /\ p.low[3] = Limb - 1
                   /\ 2 * (Limb - p.low[4]) <= scaled_n

\* C14 as stated: avg_connections is 0 for a graph with no nodes, equals
\* edge_count / node_count in every other state, and avg_connections *
\* node_count = edge_count always holds.
C14_AvgTimesNodes ==
    LET stats == get_stats(ccg)
    IN  /\ stats.node_count = 0 => stats.avg_connections = FloatZero
        /\ stats.node_count > 0 =>
              NearestQuotient(stats.avg_connections, stats.edge_count,
                              stats.node_count)
        /\ FloatMul(stats.avg_connections, stats.node_count)
              = FloatOfInt(stats.edge_count)

\* C14 amended: avg_connections is 0 for a graph with no nodes and is the
\* float nearest to edge_count / node_count in every other state;
\* avg_connections * node_count is edge_count or one of the two floats next
\* to it.
C14_AvgConnections ==
    LET stats == get_stats(ccg)
        product == FloatMul(stats.avg_connections, stats.node_count)
        edge_count == FloatOfInt(stats.edge_count)
    IN  /\ stats.node_count = 0 => stats.avg_connections = FloatZero
        /\ stats.node_count > 0 =>
              NearestQuotient(stats.avg_connections, stats.edge_count,
                              stats.node_count)
        /\ \/ product = edge_count
           \/ /\ stats.edge_count > 0
              /\ product \in {FloatPred(edge_count), FloatSucc(edge_count)}

\* C14 witness: a graph with edges for which the product is not edge_count.
C14_Witness ==
    LET stats == get_stats(ccg)
    IN  /\ stats.edge_count > 0
        /\ FloatMul(stats.avg_connections, stats.node_count)
              # FloatOfInt(stats.edge_count)

(***************************************************************************)
(* Properties of the readers of a snapshot (specification SpecRead).       *)
(***************************************************************************)
StartsWith(text, prefix) ==
    Len(text) >= Len(prefix) /\ SubSeq(text, 1, Len(prefix)) = prefix

Header == "graph TD"

IsStyleLine(line) == StartsWith(line, "    style ")

IsEdgeLine(line) == Contains(line, " --> ")

\* the node declarations of a diagram: its lines other than the header, the
\* style lines and the edge lines
NodeDeclarations(lines) ==
    {k \in 1..Len(lines) :
        lines[k] # Header /\ ~IsStyleLine(lines[k]) /\ ~IsEdgeLine(lines[k])}

IsDiagram == asked.op = "generate_mermaid_diagram"

\* C15: for every snapshot and every max_nodes, generate_mermaid_diagram
\* emits at most max_nodes node declarations; when max_nodes = 0 or the graph
\* has no nodes the output is exactly the header line.
C15_DiagramSizeBound ==
    IsDiagram =>
        /\ Cardinality(NodeDeclarations(reply)) <= asked.max_nodes
        /\ (asked.max_nodes = 0 \/ result.nodes.keys = <<>>) =>
              reply = <<Header>>

\* C16: for the same ordered list of records build_code_context_graph always
\* returns the same snapshot, and for the same snapshot and max_nodes
\* generate_mermaid_diagram returns the same lines in the same order on every
\* run: the diagram of a call equals the diagram the first of the same calls
\* returned, in this run or in an earlier one.
C16_Determinism ==
    /\ result = build_code_context_graph(parsed_files)
    /\ IsDiagram => reply = firstReply.value

IsQuery == asked.op = "query_ccg"

\* the ids of the entities of the snapshot that carry the name
Carriers(entity_name) ==
    {eid \in Range(result.nodes.keys) :
        Get(result.nodes.map[eid], "name", None) = entity_name}

\* C17: query_ccg returns the shape {error: message naming the queried name}
\* exactly when no entity of the snapshot carries the name, for every query
\* kind; in that case it returns no results list, and in every other case it
\* returns one and no error.
C17_QueryMiss ==
    IsQuery =>
        IF Carriers(asked.entity_name) = {}
        THEN /\ DOMAIN reply = {"error"}
             /\ Contains(reply.error, asked.entity_name)
             /\ reply.error = "Entity \"" \o asked.entity_name \o "\" not found"
        ELSE DOMAIN reply = {"results"}

\* C17 witness: a query on a snapshot with entities, for a name none of them
\* carries, has returned the error shape.
C17_Witness ==
    /\ IsQuery
    /\ result.nodes.keys # <<>>
    /\ Carriers(asked.entity_name) = {}
    /\ DOMAIN reply = {"error"}

KnownKinds == {"info", "callees", "callers"}

\* a query of a known kind for a name some entity carries
IsHit ==
    /\ IsQuery
    /\ asked.query_type \in KnownKinds
    /\ Carriers(asked.entity_name) # {}

\* the entity record a block of the results holds
OwnRecord(block) == IF asked.query_type = "info" THEN block ELSE block.entity

\* C18: for a query kind in {info, callees, callers} and a name carried by
\* k >= 1 entities, query_ccg returns exactly k blocks, one per matching
\* entity in the order of the snapshot's nodes mapping, each holding that
\* entity's own record.
C18_QueryResultSize ==
    IsHit =>
        LET carriers ==
                SelectSeq(result.nodes.keys,
                          LAMBDA eid : eid \in Carriers(asked.entity_name))
        IN  /\ Len(reply.results) = Cardinality(Carriers(asked.entity_name))
            /\ \A k \in 1..Len(carriers) :
                  OwnRecord(reply.results[k]) = result.nodes.map[carriers[k]]

\* C18 witness: a query of a known kind for a name carried by several
\* entities has returned several blocks.
C18_Witness ==
    /\ IsHit
    /\ Cardinality(Carriers(asked.entity_name)) >= 2
    /\ Len(reply.results) >= 2

\* the record of an entity of the snapshot
RecordOf(eid) == result.nodes.map[eid]

\* Y is in the adjacency list of X
Adjacent(x, y) == y \in Range(DictGet(result.edges, x, <<>>))

\* the block of the entity in what query_ccg returns for its name
BlockOf(query_type, eid) ==
    LET blocks == query_ccg(result, query_type, RecordOf(eid).name).results
    IN  blocks[CHOOSE k \in 1..Len(blocks) :
                   blocks[k].entity = RecordOf(eid)]

\* the entities of the blocks of a reply, in the order of the blocks
Carrying(entity_name) ==
    SelectSeq(result.nodes.keys, LAMBDA eid : eid \in Carriers(entity_name))

\* C19: for entities X and Y of a snapshot, Y's record is in the 'calls' list
\* of X's callees block exactly when X's record is in the 'called_by' list
\* of Y's callers block, and exactly when Y is in X's adjacency list; Y is
\* in get_callees(X) exactly when X is in get_callers(Y).
C19_CallersCalleesDuality ==
    /\ (IsHit /\ asked.query_type = "callees") =>
          \A k \in 1..Len(reply.results) :
              \A y \in Range(result.nodes.keys) :
                  LET x == Carrying(asked.entity_name)[k]
                      called == RecordOf(y) \in Range(reply.results[k].calls)
                  IN  /\ called <=> Adjacent(x, y)
                      /\ called <=>
                            RecordOf(x)
                               \in Range(BlockOf("callers", y).called_by)
    /\ (IsHit /\ asked.query_type = "callers") =>
          \A k \in 1..Len(reply.results) :
              \A x \in Range(result.nodes.keys) :
                  LET y == Carrying(asked.entity_name)[k]
                      calling ==
                          RecordOf(x) \in Range(reply.results[k].called_by)
                  IN  /\ calling <=> Adjacent(x, y)
                      /\ calling <=>
                            RecordOf(y) \in Range(BlockOf("callees", x).calls)
    /\ \A x \in NodeIds(ccg), y \in NodeIds(ccg) :
          y \in Range(get_callees(ccg, x)) <=> x \in Range(get_callers(ccg, y))

\* C19 witness: a callers query has returned a block that lists a caller X of
\* its entity Y, and Y is not a caller of X.
C19_Witness ==
    /\ IsHit
    /\ asked.query_type = "callers"
    /\ \E k \in 1..Len(reply.results) :
          \E x \in Range(result.nodes.keys) :
              /\ RecordOf(x) \in Range(reply.results[k].called_by)
              /\ ~Adjacent(Carrying(asked.entity_name)[k], x)

Selected == top_node_ids(result.nodes, result.edges, asked.max_nodes)

\* the length of the entity's adjacency list
OutDegree(eid) == Len(DictGet(result.edges, eid, <<>>))

\* the place of the entity in the iteration order of the nodes mapping
Position(eid) == IndexOf(result.nodes.keys, eid)

\* the declaration line of an entity
DeclarationOf(eid) == NodeLines(result.nodes, clean_id(eid), eid)[1]

\* C23: for max_nodes >= 0 the selected set has exactly
\* min(max_nodes, node count) entities; no unselected entity has a strictly
\* larger out-degree than a selected one; among entities of equal
\* out-degree those earlier in the order of the nodes mapping are selected
\* first; the diagram declares the selected entities and no other.
C23_DiagramSelection ==
    (IsDiagram /\ asked.max_nodes >= 0) =>
        /\ Selected \subseteq NodeIds(result)
        /\ Cardinality(Selected)
              = Min(asked.max_nodes, Len(result.nodes.keys))
        /\ \A s \in Selected, u \in NodeIds(result) \ Selected :
              /\ OutDegree(u) <= OutDegree(s)
              /\ OutDegree(u) = OutDegree(s) => Position(s) < Position(u)
        /\ Cardinality(NodeDeclarations(reply)) = Cardinality(Selected)
        /\ {reply[k] : k \in NodeDeclarations(reply)}
              = {DeclarationOf(eid) : eid \in Selected}

\* C23 witness: a diagram of fewer entities than the snapshot has, where the
\* sort decides: an unselected entity comes before a selected one of larger
\* out-degree in the nodes mapping, and another unselected entity has the
\* out-degree of a selected one.
C23_Witness ==
    /\ IsDiagram
    /\ asked.max_nodes > 0
    /\ asked.max_nodes < Len(result.nodes.keys)
    /\ \E s \in Selected, u \in NodeIds(result) \ Selected :
          Position(u) < Position(s) /\ OutDegree(u) < OutDegree(s)
    /\ \E s \in Selected, u \in NodeIds(result) \ Selected :
          OutDegree(u) = OutDegree(s)

\* the indices of the edge lines of a diagram
EdgeLineIndices(lines) == {k \in 1..Len(lines) : IsEdgeLine(lines[k])}

\* the ordered pairs the diagram has to draw: both ends selected, the
\* second in the adjacency list of the first
DrawnPairs == {pair \in Selected \X Selected : Adjacent(pair[1], pair[2])}

\* the edge line of a pair
EdgeLineOf(pair) ==
    "    " \o clean_id(pair[1]) \o " --> " \o clean_id(pair[2])

\* C24: generate_mermaid_diagram emits an edge line 'a --> b' exactly for
\* the ordered pairs (a, b) such that b is in a's adjacency list and both
\* are selected, in the direction of the adjacency list; a pair with an
\* unselected endpoint is never drawn, and a pair that occurs several times
\* in the adjacency list is drawn once.
C24_DiagramEdges ==
    IsDiagram =>
        /\ {reply[k] : k \in EdgeLineIndices(reply)}
              = {EdgeLineOf(pair) : pair \in DrawnPairs}
        /\ Cardinality(EdgeLineIndices(reply)) = Cardinality(DrawnPairs)

\* C24 witness: the diagram draws a pair that is stored several times in the
\* adjacency list, does not draw its reverse, and leaves out a stored pair
\* with an unselected endpoint.
C24_Witness ==
    /\ IsDiagram
    /\ \E pair \in DrawnPairs :
          /\ Cardinality({k \in 1..OutDegree(pair[1]) :
                            result.edges.map[pair[1]][k] = pair[2]}) > 1
          /\ ~Adjacent(pair[2], pair[1])
    /\ \E a \in NodeIds(result), b \in NodeIds(result) :
          Adjacent(a, b) /\ ~({a, b} \subseteq Selected)

\* C25: distinct selected entity ids are rendered with distinct sanitized
\* identifiers, so the diagram never contains two identical node
\* declarations or two identical edge lines, for every set of ids including
\* those that differ only in the characters the sanitizer replaces.
C25_NoDuplicateLines ==
    IsDiagram =>
        /\ \A a, b \in Selected : clean_id(a) = clean_id(b) => a = b
        /\ \A j, k \in NodeDeclarations(reply) :
              reply[j] = reply[k] => j = k
        /\ \A j, k \in EdgeLineIndices(reply) :
              reply[j] = reply[k] => j = k

(***************************************************************************)
(* Properties of the extraction (specification SpecParse).                 *)
(***************************************************************************)
\* the extraction records as parse_source_file returned them: parsed_files
\* before the explanations are attached, the assembler's copies after
Extracted ==
    IF pc \in {"parse", "fatal"} THEN parsed_files
    ELSE ccg_input_files(parsed_files)

\* reading the file raises
FailsToRead(file) == file.fault # ""

\* ast.parse raises SyntaxError on the text of the file
FailsToParse(file) ==
    /\ Suffix(file.path) = ".py"
    /\ file.fault = ""
    /\ file.tree.kind = "SyntaxError"

\* the message of the exception raised while the file is read or parsed
FailureMessage(file) ==
    IF FailsToRead(file) THEN file.fault ELSE file.tree.msg

\* every file the loop has reached has its record, under its path, and the
\* assembler is given the records of all the files
AllExtracted ==
    /\ pc # "fatal"
    /\ Len(parsed_files) = IF pc = "parse" THEN i - 1 ELSE Len(file_tree)
    /\ \A k \in 1..Len(parsed_files) : Extracted[k].path = file_tree[k].path
    /\ pc = "done" => result = build_code_context_graph(Extracted)

DuplicateFree(items) ==
    \A a, b \in 1..Len(items) : items[a] = items[b] => a = b

\* the lists of a record that may hold no name twice: every structural
\* list, and the imports of javascript and rust
DeduplicatedFields(pfile) ==
    ({"funcs", "classes", "structs", "enums", "traits", "walkers", "nodes",
      "abilities"}
        \cup (IF pfile.type \in {"javascript", "rust"} THEN {"imports"}
              ELSE {}))
        \cap DOMAIN pfile

\* C22: in every non-error extraction record each structural list (funcs,
\* classes, structs, enums, traits, walkers, nodes, abilities, and the
\* imports of javascript and rust) holds no name twice, whatever the source
\* text declares.
C22_DuplicateFree ==
    \A k \in 1..Len(parsed_files) :
        Extracted[k].type # "error" =>
            \A field \in DeduplicatedFields(Extracted[k]) :
                DuplicateFree(Extracted[k][field])

(***************************************************************************)
(* Properties of the two passes of build_code_context_graph                *)
(* (specification Spec).                                                   *)
(***************************************************************************)
\* the number of stored edges
StoredEdges(self) == SumLen(self.edges, Len(self.edges.keys))

\* C26: every add_node call happens before the first add_edge call (no
\* edge is stored while pass 1 runs), the node set and the file index do not
\* change during pass 2, and every add_edge call issued in pass 2 has both
\* endpoints present, so that each call stores an edge.
C26_PassOrdering ==
    [][/\ pc = "pass1" =>
             /\ ccg'.edges = EmptyDict
             /\ ccg'.edge_types = EmptyDict
       /\ pc = "pass2" =>
             /\ ccg'.nodes = ccg.nodes
             /\ ccg'.file_entities = ccg.file_entities
             /\ i' = i + 1 =>
                   LET calls == Pass2Calls(ccg, parsed_files[i])
                   IN  /\ \A k \in 1..Len(calls) :
                             /\ Has(ccg.nodes, calls[k][1])
                             /\ Has(ccg.nodes, calls[k][2])
                       /\ StoredEdges(ccg') = StoredEdges(ccg) + Len(calls)
       /\ pc = "done" => ccg' = ccg]_vars

\* C26 witness: pass 2 has handled a record and stored edges between
\* entities pass 1 registered under several paths.
C26_Witness ==
    /\ pc = "pass2"
    /\ i > 1
    /\ StoredEdges(ccg) > 0
    /\ Len(ccg.file_entities.keys) > 1

\* the records pass 2 does not skip
Scanned(pfile) == NotError(pfile) /\ "content" \in DOMAIN pfile

\* the path the entity was registered with
FilePathOf(self, entity_id) == self.nodes.map[entity_id].file_path

CallersOf(v) == {e[1] : e \in {x \in EdgePairs(ccg.edges) : x[2] = v}}

C29_CrossFileOnly ==
    \A e \in EdgePairs(ccg.edges) :
        /\ e[1] # e[2]
        /\ FilePathOf(ccg, e[1]) # FilePathOf(ccg, e[2])

\* C29 witness: an assembled graph with edges, built from a file with
\* several entities whose names are all in the file's own text, and from
\* two records that share a path.
C29_Witness ==
    /\ pc = "done"
    /\ EdgePairs(ccg.edges) # {}
    /\ \E k \in 1..Len(parsed_files) :
          LET pfile == parsed_files[k] IN
          /\ Scanned(pfile)
          /\ Cardinality(Indexed(ccg, PathOf(pfile))) >= 2
          /\ \A v \in Indexed(ccg, PathOf(pfile)) :
                Referenced(NameOf(ccg, v), pfile.content)
          /\ \E v \in Indexed(ccg, PathOf(pfile)) : CallersOf(v) # {}
    /\ \E j, k \in 1..Len(parsed_files) :
          /\ j # k
          /\ PathOf(parsed_files[j]) = PathOf(parsed_files[k])
          /\ Scanned(parsed_files[j]) /\ Scanned(parsed_files[k])

\* the records have pairwise distinct paths and no two structural items of
\* one record yield the same entity id
WellFormed(files) ==
    /\ \A j, k \in 1..Len(files) :
          PathOf(files[j]) = PathOf(files[k]) => j = k
    /\ \A k \in 1..Len(files) :
          LET calls == Pass1Calls(files[k])
          IN  \A a, b \in 1..Len(calls) :
                  calls[a].entity_id = calls[b].entity_id => a = b

\* C30: when the records have pairwise distinct paths and no two structural
\* items of one record yield the same entity id, every adjacency list of
\* the assembled graph is duplicate-free and stats.edge_count equals the
\* number of entries of edge_types.
C30_NoDuplicateEdges ==
    (pc = "done" /\ WellFormed(parsed_files)) =>
        /\ \A u \in Range(ccg.edges.keys) : DuplicateFree(ccg.edges.map[u])
        /\ result.stats.edge_count = Len(result.edge_types.keys)

\* C30 witness: a graph assembled from three well-formed records that holds
\* several edges, two of them into the same entity.
C30_Witness ==
    /\ pc = "done"
    /\ WellFormed(parsed_files)
    /\ Len(parsed_files) = 3
    /\ result.stats.edge_count >= 2
    /\ \E v \in NodeIds(ccg) : Cardinality(CallersOf(v)) >= 2

====
